---- MODULE Spec2Model ----
(***************************************************************************)
(* Model of the biopath command line driver: the `index` command           *)
(* (src/index.rs) and the `query` command (src/query.rs) on top of the     *)
(* optionally compressed file helpers (src/io_util.rs).                    *)
(*                                                                         *)
(* Text is modelled as a sequence of one-character strings, a file of      *)
(* bytes as a sequence of numbers 0..255.  The graph store, the SPQR       *)
(* reader, the overlay codec and the two Dijkstra engines are external     *)
(* crates: their results are nondeterministic choices over what their      *)
(* interface can return (success or error, a map from targets to lengths). *)
(***************************************************************************)
EXTENDS Integers, Sequences, FiniteSets, TLC

\* Largest path length the engines of the model report (the other one is 0).
MaxPathLen == 12

\* Longest overlay payload (in bytes) the index writer of the model produces.
MaxPayload == 2

TAB == "\t"
SPACE == " "

\* An optional value: <<>> is none, <<v>> is some v.
None == <<>>
Some(v) == <<v>>

\* A path of the file system: no file, or a file holding bytes (or rows).
NoFile == [exists |-> FALSE, content |-> <<>>]
File(content) == [exists |-> TRUE, content |-> content]

-----------------------------------------------------------------------------
(* Text helpers: str::trim, str::split('\t'), slice::chunks(3), integer     *)
(* parsing and formatting.                                                  *)

IsWhitespace(c) == c \in {SPACE, TAB}

RECURSIVE TrimStart(_)
TrimStart(s) ==
    IF s = <<>> THEN <<>>
    ELSE IF IsWhitespace(Head(s)) THEN TrimStart(Tail(s))
    ELSE s

RECURSIVE TrimEnd(_)
TrimEnd(s) ==
    IF s = <<>> THEN <<>>
    ELSE IF IsWhitespace(s[Len(s)]) THEN TrimEnd(SubSeq(s, 1, Len(s) - 1))
    ELSE s

\* str::trim
Trim(s) == TrimEnd(TrimStart(s))

\* str::split('\t'): the empty string splits into one empty column.
RECURSIVE SplitFrom(_, _, _)
SplitFrom(s, i, cur) ==
    IF i > Len(s) THEN <<cur>>
    ELSE IF s[i] = TAB THEN <<cur>> \o SplitFrom(s, i + 1, <<>>)
    ELSE SplitFrom(s, i + 1, Append(cur, s[i]))

SplitTab(s) == SplitFrom(s, 1, <<>>)

\* slice::chunks(3): consecutive chunks of three, the last one may be shorter.
RECURSIVE Chunks3(_)
Chunks3(cols) ==
    IF cols = <<>> THEN <<>>
    ELSE IF Len(cols) <= 3 THEN <<cols>>
    ELSE <<SubSeq(cols, 1, 3)>> \o Chunks3(SubSeq(cols, 4, Len(cols)))

Digits == <<"0", "1", "2", "3", "4", "5", "6", "7", "8", "9">>

IsDigit(c) == \E d \in 1..10 : Digits[d] = c

DigitValue(c) == (CHOOSE d \in 1..10 : Digits[d] = c) - 1

\* Whether v fits an unsigned integer of w bits.  The inputs of the model
\* have at most five digits, so for 32 and 64 bits every value fits.
FitsWidth(v, w) ==
    CASE w = 8 -> v <= 255
      [] w = 16 -> v <= 65535
      [] OTHER -> TRUE

\* <uN as FromStr>::from_str: an optional '+', then at least one decimal digit,
\* nothing else; a value that does not fit the width is an error (-1 here).
RECURSIVE ParseDigits(_, _, _)
ParseDigits(s, acc, w) ==
    IF s = <<>> THEN acc
    ELSE IF ~IsDigit(Head(s)) THEN -1
    ELSE LET v == acc * 10 + DigitValue(Head(s))
         IN IF FitsWidth(v, w) THEN ParseDigits(Tail(s), v, w) ELSE -1

ParseUnsigned(s, w) ==
    IF s = <<>> THEN -1
    ELSE LET body == IF Head(s) = "+" THEN Tail(s) ELSE s
         IN IF body = <<>> THEN -1 ELSE ParseDigits(body, 0, w)

\* Display of an unsigned integer: decimal, no sign, no leading zeros.
RECURSIVE DecimalString(_)
DecimalString(n) ==
    IF n < 10 THEN <<Digits[n + 1]>>
    ELSE Append(DecimalString(n \div 10), Digits[(n % 10) + 1])

\* Columns joined by tabs (the text of a tab-separated row).
RECURSIVE JoinTab(_)
JoinTab(cols) ==
    IF cols = <<>> THEN <<>>
    ELSE IF Len(cols) = 1 THEN cols[1]
    ELSE cols[1] \o <<TAB>> \o JoinTab(Tail(cols))

-----------------------------------------------------------------------------
(* The graph store as the driver sees it: node indices 1..n, node_name,     *)
(* and the node name index the driver builds from them.                     *)

\* The graph of the spec's scenario: node A of length 10, node B of length 5.
Graph ==
    << [name |-> <<"A">>, length |-> 10],
       [name |-> <<"B">>, length |-> 5] >>

NodeIndices(graph) == 1..Len(graph)

NodeName(graph, i) == graph[i].name

\* node_name_index: HashMap from node name to node index.
NodeNameIndex(graph) ==
    [n \in {NodeName(graph, i) : i \in NodeIndices(graph)} |->
        CHOOSE i \in NodeIndices(graph) : NodeName(graph, i) = n]

\* GfaLocation::new(DirectedNodeIndex::from_bidirected(node, forward), offset)
Location(node, forward, offset) ==
    [node |-> node, forward |-> forward, offset |-> offset]

-----------------------------------------------------------------------------
(* Parsing of the query file.                                               *)

\* An error of the query file: its kind, the path its message names, and
\* what else the message shows ("count": columns.len(), "column": the bad
\* column, "line": the text of the line).
ParseError(kind, shows) ==
    [status |-> "error", kind |-> kind, file |-> "query_in", shows |-> shows]

ParsePanic == [status |-> "panic", kind |-> "KeyNotFound"]

\* The body of `for column in columns.chunks(3)` for one chunk: the location,
\* an error (bail!, or the failed offset parse) or the panic of indexing the
\* node name index with a name it does not hold.
ParseTriple(column, w, graph) ==
    IF Len(column) # 3 THEN ParseError("ColumnCount", "count")
    ELSE IF column[2] \notin {<<"+">>, <<"-">>}
        THEN ParseError("Orientation", "column")
    ELSE IF ParseUnsigned(column[3], w) < 0
        THEN ParseError("Offset", "column")
    ELSE IF column[1] \notin DOMAIN NodeNameIndex(graph) THEN ParsePanic
    ELSE [status |-> "ok",
          location |-> Location(NodeNameIndex(graph)[column[1]],
                                column[2] = <<"+">>,
                                ParseUnsigned(column[3], w))]

\* The chunk loop: the first location becomes the source, the others are
\* pushed to the targets; the first error or panic ends it.
RECURSIVE ParseChunks(_, _, _, _, _, _)
ParseChunks(chunks, columns, source, targets, w, graph) ==
    IF chunks = <<>>
        THEN [status |-> "ok", source |-> source, targets |-> targets]
    ELSE LET t == ParseTriple(Head(chunks), w, graph)
         IN IF t.status # "ok" THEN t
            ELSE IF source = <<>>
                THEN ParseChunks(Tail(chunks), columns, <<t.location>>, targets, w, graph)
            ELSE ParseChunks(Tail(chunks), columns, source,
                             Append(targets, t.location), w, graph)

\* One iteration of `for line in reader.lines()`.
ParseQueryLine(line, w, graph) ==
    LET columns == SplitTab(Trim(line))
        r == ParseChunks(Chunks3(columns), columns, <<>>, <<>>, w, graph)
    IN IF r.status # "ok" THEN r
       ELSE IF r.source = <<>> \/ r.targets = <<>>
           THEN ParseError("SourceTarget", "line")
       ELSE [status |-> "ok",
             query |-> [source |-> r.source[1], targets |-> r.targets,
                        distances |-> <<>>]]

\* The closure handed to read_optionally_compressed_file for the query file:
\* all the queries, or the first error or panic.
RECURSIVE ReadQueryLines(_, _, _, _)
ReadQueryLines(lines, queries, w, graph) ==
    IF lines = <<>> THEN [status |-> "ok", queries |-> queries]
    ELSE LET r == ParseQueryLine(Head(lines), w, graph)
         IN IF r.status # "ok" THEN r
            ELSE ReadQueryLines(Tail(lines), Append(queries, r.query), w, graph)

-----------------------------------------------------------------------------
(* Execution of one query and the text of its output row.                   *)

\* What shortest_paths can return for a query: a map from some of the
\* targets to a path length.  A target it holds no path for is unreachable.
PathMaps(targets) ==
    UNION {[D -> {0, MaxPathLen}] :
              D \in SUBSET {targets[i] : i \in DOMAIN targets}}

\* The target index handed to shortest_paths.
TargetIndexKind(targets) == IF Len(targets) = 1 THEN "single" ELSE "multi"

\* Faulty variant of OptionalLength: a missing path reported as length 0.
OptionalLengthOrZero(paths, target) ==
    IF target \in DOMAIN paths THEN Some(paths[target]) ELSE Some(0)

\* paths.get(&target).map(|path| path.length()).into()
OptionalLength(paths, target) ==
    IF target \in DOMAIN paths THEN Some(paths[target]) ELSE None

\* Faulty variant of Distances: the targets are walked in reverse.
DistancesReversed(targets, paths) ==
    [i \in 1..Len(targets) |->
        IF targets[Len(targets) + 1 - i] \in DOMAIN paths
            THEN Some(paths[targets[Len(targets) + 1 - i]])
        ELSE None]

\* query.distances = query.targets.iter().map(...).collect()
Distances(targets, paths) ==
    [i \in 1..Len(targets) |-> OptionalLength(paths, targets[i])]

\* distance.into_option().as_ref().map(ToString::to_string)
\*     .unwrap_or_else(|| "None".to_string())
DistanceText(distance) ==
    IF distance = None THEN <<"N", "o", "n", "e">> ELSE DecimalString(distance[1])

OrientationText(forward) == IF forward THEN <<"+">> ELSE <<"-">>

\* write!(writer, "{}\t{}\t{}", name, offset, orientation) for the source.
SourceText(graph, source) ==
    NodeName(graph, source.node) \o <<TAB>> \o DecimalString(source.offset)
        \o <<TAB>> \o OrientationText(source.forward)

\* write!(writer, "{}\t{}\t{}\t{}", name, offset, orientation, distance)
TargetText(graph, target, distance) ==
    NodeName(graph, target.node) \o <<TAB>> \o DecimalString(target.offset)
        \o <<TAB>> \o OrientationText(target.forward)
        \o <<TAB>> \o DistanceText(distance)

\* for (target, distance) in query.targets.iter().zip(&query.distances)
RECURSIVE TargetsText(_, _, _, _)
TargetsText(graph, targets, distances, i) ==
    IF i > Len(targets) \/ i > Len(distances) THEN <<>>
    ELSE TargetText(graph, targets[i], distances[i])
             \o TargetsText(graph, targets, distances, i + 1)

\* The text written for one query, without the line break of writeln!.
RowText(graph, query) ==
    SourceText(graph, query.source)
        \o TargetsText(graph, query.targets, query.distances, 1)

OutputRows(graph, queries) ==
    [i \in 1..Len(queries) |-> RowText(graph, queries[i])]

-----------------------------------------------------------------------------
(* Files: the optional gzip layer chosen by the file extension.  The gzip   *)
(* codec is modelled as a two byte magic number followed by the data with   *)
(* every byte shifted by one: not the identity, and undone only by the      *)
(* decoder.                                                                 *)

Compress(bytes) ==
    <<31, 139>> \o [i \in 1..Len(bytes) |-> (bytes[i] + 1) % 256]

IsGzip(raw) == Len(raw) >= 2 /\ raw[1] = 31 /\ raw[2] = 139

\* The decoded stream, or a stream every read of which fails.
Decompress(raw) ==
    IF IsGzip(raw)
        THEN [ok |-> TRUE,
              bytes |-> [i \in 1..(Len(raw) - 2) |-> (raw[i + 2] + 255) % 256]]
    ELSE [ok |-> FALSE, bytes |-> <<>>]

\* write_optionally_compressed_file: what the file holds once `bytes` went
\* through the writer.
Encode(gz, bytes) == IF gz THEN Compress(bytes) ELSE bytes

\* open_optionally_compressed_file: the stream a reader of the file sees.
Decode(gz, raw) ==
    IF gz THEN Decompress(raw) ELSE [ok |-> TRUE, bytes |-> raw]

SupportedWordSizes == {8, 16, 32, 64}

\* Faulty variant of IsSupportedWordSize: the match has a catch-all arm that runs
\* the command instead of bailing out.
IsSupportedWordSizeAny(w) == w >= 0

\* Faulty variant of IsSupportedWordSize: a range check instead of the four
\* widths.
IsSupportedWordSizeUpTo64(w) == w >= 1 /\ w <= 64

\* match word_size { 8 => .., 16 => .., 32 => .., 64 => .., _ => bail!(..) }
IsSupportedWordSize(w) == w \in SupportedWordSizes

\* Faulty variant of HeaderByte: the size in bytes instead of bits.
HeaderByteInBytes(w) == w \div 8

\* u8::try_from(std::mem::size_of::<IndexType>() * 8).unwrap()
HeaderByte(w) == (w \div 8) * 8

\* The bytes overlay.write_binary produces: up to MaxPayload bytes.
Payloads == {[i \in 1..n |-> i] : n \in 0..MaxPayload}

-----------------------------------------------------------------------------
(* Inputs.                                                                  *)

cA == <<"A">>
cB == <<"B">>
cX == <<"X">>
cPlus == <<"+">>
cMinus == <<"-">>
c0 == <<"0">>
c3 == <<"3">>

LineAB == JoinTab(<<cA, cPlus, c0, cB, cPlus, c0>>)
LineABB == JoinTab(<<cA, cPlus, c0, cB, cPlus, c0, cB, cPlus, c3>>)
LineDuplicate == JoinTab(<<cA, cMinus, c3, cB, cPlus, c0, cB, cPlus, c0>>)
LineLeadingZeros == JoinTab(<<cB, cMinus, <<"0", "0", "7">>, cA, cPlus, <<"1", "2">>>>)
LinePlusSign == JoinTab(<<cA, cPlus, <<"+", "5">>, cB, cMinus, c0>>)
LinePadded == <<SPACE>> \o LineAB \o <<TAB>>
LineOffset300 == JoinTab(<<cA, cPlus, <<"3", "0", "0">>, cB, cPlus, c0>>)
LineOffset70000 == JoinTab(<<cA, cPlus, c0, cB, cPlus, <<"7", "0", "0", "0", "0">>>>)
LineEmpty == <<>>
LineSourceOnly == JoinTab(<<cA, cPlus, c0>>)
LineFourColumns == JoinTab(<<cA, cPlus, c0, cB>>)
LineBadOrientation == JoinTab(<<cA, <<"?">>, c0, cB, cPlus, c0>>)
LineBadOffset == JoinTab(<<cA, cPlus, <<"x">>, cB, cPlus, c0>>)
LineNegativeOffset == JoinTab(<<cA, cPlus, <<"-", "1">>, cB, cPlus, c0>>)
LineUnknownTarget == JoinTab(<<cA, cPlus, c0, cX, cPlus, c0>>)
LineUnknownSourceOnly == JoinTab(<<cX, cPlus, c0>>)
LineUnknownFourColumns == JoinTab(<<cX, cMinus, c0, cB>>)
LineUnknownThenBadOffset == JoinTab(<<cX, cPlus, c0, cB, cPlus, <<"x">>>>)

\* The query files of the model (the content of --query-in), as lines.
QueryFiles ==
    { <<>>,
      <<LineAB>>, <<LineABB>>, <<LineDuplicate>>, <<LinePadded>>,
      <<LineLeadingZeros, LinePlusSign>>,
      <<LineOffset300>>, <<LineOffset70000>>,
      <<LineEmpty>>, <<LineSourceOnly>>, <<LineFourColumns>>,
      <<LineBadOrientation>>, <<LineBadOffset>>, <<LineNegativeOffset>>,
      <<LineUnknownTarget>>, <<LineUnknownSourceOnly>>, <<LineUnknownFourColumns>>,
      <<LineAB, LineSourceOnly>>, <<LineABB, LineUnknownTarget>>,
      <<LineABB, LineAB>>, <<LineUnknownThenBadOffset>> }

\* The values of --word-size tried (a u8): the supported ones and two others.
WordSizeFlags == SupportedWordSizes \cup {0, 12}

\* What the index path may hold before any command ran.
InitialIndexFiles ==
    { NoFile, File(<<>>), File(<<12, 1>>), File(<<16, 1>>),
      File(Compress(<<12, 1>>)), File(Compress(<<32>>)) }

-----------------------------------------------------------------------------
(* State.                                                                   *)

VARIABLES
    pc,           \* position of the running command, "idle" before any ran
    cmd,          \* "none", "index" or "query"
    status,       \* how the last command ended: "running", "ok", "error", "panic"
    err,          \* the error a command returned: its kind and the path it names
    indexGz,      \* whether the index path has a gz / gzip extension
    indexFile,    \* the file at the index path (raw bytes)
    outFile,      \* the file at --query-out (rows of text)
    cliWordSize,  \* --word-size of the index command
    cliIndexIn,   \* whether --index-in was given to the query command
    width,        \* bits of the IndexType the run is instantiated with, 0: none
    overlay,      \* index command: the payload of the overlay built
    written,      \* index command: the bytes handed to the writer so far
    writtenWidth, \* width of the last index run that wrote the whole file, 0: none
    reader,       \* query command: the index_file_reader (stream and position)
    headerByte,   \* query command: the header byte read, -1: none
    payloadStart, \* query command: reader position read_binary started at, -1: none
    reads,        \* inputs the running command has read (or tried to), in order
    graph,        \* the graph loaded by the running command, <<>>: none
    queryLines,   \* the lines of the query file as read
    queries,      \* the Vec<Query>
    nextQuery,    \* position of the query loop
    engine,       \* the Dijkstra engine constructed: "none", "direct", "overlay"
    engineCount,  \* how many engines the run constructed
    execLog,      \* per executed query: engine used, target index kind, paths
    created,      \* output paths the running command has created (File::create)
    stats         \* statistics command: outputs asked for, their files, stdout

vars ==
    << pc, cmd, status, err, indexGz, indexFile, outFile, cliWordSize,
       cliIndexIn, width, overlay, written, writtenWidth, reader, headerByte,
       payloadStart, reads, graph, queryLines, queries, nextQuery, engine,
       engineCount, execLog, created, stats >>

fsVars == << indexGz, indexFile, outFile, writtenWidth >>
indexVars == << cliWordSize, overlay, written >>
queryVars ==
    << cliIndexIn, reader, headerByte, payloadStart, queryLines, queries,
       nextQuery, engine, engineCount, execLog >>

NoError == [kind |-> "none", file |-> "none"]
Error(kind, file) == [kind |-> kind, file |-> file]
NoReader == [ok |-> FALSE, bytes |-> <<>>, pos |-> 0]

\* The statistics command before it ran: no output asked for, no statistics
\* collected (width 0), nothing printed, no output file ("none"; later
\* "empty", "partial" or "full").
NoStatistics ==
    [jsonOut |-> FALSE, tomlOut |-> FALSE, width |-> 0, printed |-> FALSE,
     jsonFile |-> "none", tomlFile |-> "none"]

Init ==
    /\ pc = "idle"
    /\ cmd = "none"
    /\ status = "ok"
    /\ err = NoError
    /\ indexGz \in BOOLEAN
    /\ indexFile \in InitialIndexFiles
    /\ outFile = NoFile
    /\ cliWordSize = 0
    /\ cliIndexIn = FALSE
    /\ width = 0
    /\ overlay = <<>>
    /\ written = <<>>
    /\ writtenWidth = 0
    /\ reader = NoReader
    /\ headerByte = -1
    /\ payloadStart = -1
    /\ reads = <<>>
    /\ graph = <<>>
    /\ queryLines = <<>>
    /\ queries = <<>>
    /\ nextQuery = 0
    /\ engine = "none"
    /\ engineCount = 0
    /\ execLog = <<>>
    /\ created = {}
    /\ stats = NoStatistics

\* A command returns Err(..) (main prints it and exits).
Fail(kind, file) ==
    /\ pc' = "exit"
    /\ status' = "error"
    /\ err' = Error(kind, file)

\* A command returns Ok(()).
Succeed ==
    /\ pc' = "exit"
    /\ status' = "ok"
    /\ err' = NoError

\* A new command can be started before any ran and after an index command.
CanStart == pc = "idle" \/ (pc = "exit" /\ cmd = "index")

-----------------------------------------------------------------------------
(* The index command (src/index.rs).                                        *)

\* index::run: the match on cli.word_size.
IndexRun(ws) ==
    /\ CanStart
    /\ cmd' = "index"
    /\ cliWordSize' = ws
    /\ reads' = <<>>
    /\ graph' = <<>>
    /\ overlay' = <<>>
    /\ written' = <<>>
    /\ IF IsSupportedWordSize(ws)
           THEN /\ width' = ws
                /\ pc' = "ix_graph"
                /\ status' = "running"
                /\ err' = NoError
           ELSE /\ width' = 0
                /\ Fail("UnsupportedWordSize", "none")
    /\ created' = {}
    /\ UNCHANGED << stats, fsVars, queryVars >>

\* read_gfa1 on --graph-gfa-in at the chosen width.
IndexReadGraph ==
    /\ cmd = "index" /\ pc = "ix_graph"
    /\ reads' = Append(reads, "graph")
    /\ \/ /\ graph' = Graph
          /\ pc' = "ix_spqr"
          /\ UNCHANGED << status, err >>
       \/ /\ Fail("ReadGraph", "graph_gfa_in")
          /\ UNCHANGED graph
    /\ UNCHANGED << stats, created, cmd, width, fsVars, indexVars, queryVars >>

\* read_plain_spqr on --spqr-in.
IndexReadSpqr ==
    /\ cmd = "index" /\ pc = "ix_spqr"
    /\ reads' = Append(reads, "spqr")
    /\ \/ /\ pc' = "ix_overlay"
          /\ UNCHANGED << status, err >>
       \/ Fail("ReadSpqr", "spqr_in")
    /\ UNCHANGED << stats, created, cmd, width, graph, fsVars, indexVars, queryVars >>

\* SPQRDecompositionOverlay::new(&graph, &spqr_decomposition)
IndexBuildOverlay ==
    /\ cmd = "index" /\ pc = "ix_overlay"
    /\ overlay' \in Payloads
    /\ pc' = "ix_create"
    /\ UNCHANGED << stats, created, cmd, status, err, width, reads, graph, fsVars,
                    cliWordSize, written, queryVars >>

\* write_optionally_compressed_file: File::create(path) truncates the file.
IndexCreateFile ==
    /\ cmd = "index" /\ pc = "ix_create"
    /\ \/ /\ indexFile' = File(Encode(indexGz, <<>>))
          /\ writtenWidth' = 0
          /\ created' = created \cup {"index_out"}
          /\ pc' = "ix_header"
          /\ UNCHANGED << status, err >>
       \/ /\ Fail("CreateIndex", "index_out")
          /\ UNCHANGED << indexFile, writtenWidth, created >>
    /\ UNCHANGED << stats, cmd, width, reads, graph, indexGz, outFile, indexVars,
                    queryVars >>

\* writer.write_all(&[size_of::<IndexType>() * 8])
IndexWriteHeader ==
    /\ cmd = "index" /\ pc = "ix_header"
    /\ written' = <<HeaderByte(width)>>
    /\ indexFile' = File(Encode(indexGz, written'))
    /\ pc' = "ix_payload"
    /\ UNCHANGED << stats, created, cmd, status, err, width, reads, graph, indexGz, outFile,
                    writtenWidth, cliWordSize, overlay, queryVars >>

\* overlay.write_binary(writer): all of the payload, or an I/O error after
\* some of it.
IndexWritePayload ==
    /\ cmd = "index" /\ pc = "ix_payload"
    /\ \/ /\ written' = written \o overlay
          /\ writtenWidth' = width
          /\ Succeed
       \/ /\ \E k \in 0..(Len(overlay) - 1) :
                 written' = written \o SubSeq(overlay, 1, k)
          /\ Fail("WriteIndex", "index_out")
          /\ UNCHANGED writtenWidth
    /\ indexFile' = File(Encode(indexGz, written'))
    /\ UNCHANGED << stats, created, cmd, width, reads, graph, indexGz, outFile, cliWordSize,
                    overlay, queryVars >>

-----------------------------------------------------------------------------
(* The query command (src/query.rs).                                        *)

\* Faulty variant of EngineFor: the direct engine whatever the mode.
EngineForAlwaysDirect(indexIn) == "direct"

\* The engine a run constructs: GfaDijkstra::new(&graph) in run_without_index,
\* OverlayDijkstra::new(&overlay) in run_with_word_size.
EngineFor(indexIn) == IF indexIn THEN "overlay" ELSE "direct"

\* The engine that answers a query: the one `dijkstra` of the run.
EngineOfQuery(constructed, query) == constructed

\* query::run: without --index-in it is run_without_index::<u64>.
QueryRun(indexIn) ==
    /\ CanStart
    /\ cmd' = "query"
    /\ cliIndexIn' = indexIn
    /\ status' = "running"
    /\ err' = NoError
    /\ reads' = <<>>
    /\ graph' = <<>>
    /\ cliWordSize' = 0
    /\ overlay' = <<>>
    /\ written' = <<>>
    /\ IF indexIn
           THEN /\ width' = 0
                /\ pc' = "q_open"
           ELSE /\ width' = 64
                /\ pc' = "q_graph"
    /\ created' = {}
    /\ UNCHANGED << stats, fsVars, reader, headerByte, payloadStart,
                    queryLines, queries, nextQuery, engine, engineCount,
                    execLog >>

\* BufReader::new(open_optionally_compressed_file(index_in)?)
QueryOpenIndex ==
    /\ cmd = "query" /\ pc = "q_open"
    /\ \/ /\ indexFile.exists
          /\ reader' = [ok |-> Decode(indexGz, indexFile.content).ok,
                        bytes |-> Decode(indexGz, indexFile.content).bytes,
                        pos |-> 0]
          /\ pc' = "q_header"
          /\ UNCHANGED << status, err >>
       \/ /\ ~indexFile.exists
          /\ Fail("OpenIndex", "index_in")
          /\ UNCHANGED reader
    /\ UNCHANGED << stats, created, cmd, width, reads, fsVars, indexVars, cliIndexIn,
                    headerByte, payloadStart, graph, queryLines, queries,
                    nextQuery, engine, engineCount, execLog >>

\* read_exact of the one header byte, then the match on word_size.
QueryReadHeader ==
    /\ cmd = "query" /\ pc = "q_header"
    /\ reads' = Append(reads, "header")
    /\ \/ /\ ~reader.ok \/ reader.bytes = <<>>
          /\ Fail("ReadIndexHeader", "index_in")
          /\ UNCHANGED << reader, headerByte, width >>
       \/ /\ reader.ok /\ reader.bytes # <<>>
          /\ headerByte' = reader.bytes[1]
          /\ reader' = [reader EXCEPT !.pos = 1]
          /\ \/ /\ IsSupportedWordSize(reader.bytes[1])
                /\ width' = reader.bytes[1]
                /\ pc' = "q_graph"
                /\ UNCHANGED << status, err >>
             \/ /\ ~IsSupportedWordSize(reader.bytes[1])
                /\ Fail("UnsupportedWordSize", "none")
                /\ UNCHANGED width
    /\ UNCHANGED << stats, created, cmd, fsVars, indexVars, cliIndexIn, payloadStart, graph,
                    queryLines, queries, nextQuery, engine, engineCount,
                    execLog >>

\* read_gfa1 on --graph-gfa-in at the width of the run.
QueryReadGraph ==
    /\ cmd = "query" /\ pc = "q_graph"
    /\ reads' = Append(reads, "graph")
    /\ \/ /\ graph' = Graph
          /\ pc' = IF cliIndexIn THEN "q_spqr" ELSE "q_queries"
          /\ UNCHANGED << status, err >>
       \/ /\ Fail("ReadGraph", "graph_gfa_in")
          /\ UNCHANGED graph
    /\ UNCHANGED << stats, created, cmd, width, fsVars, indexVars, cliIndexIn, reader,
                    headerByte, payloadStart, queryLines, queries, nextQuery,
                    engine, engineCount, execLog >>

\* read_plain_spqr on --spqr-in (run_with_word_size only).
QueryReadSpqr ==
    /\ cmd = "query" /\ pc = "q_spqr"
    /\ reads' = Append(reads, "spqr")
    /\ \/ /\ pc' = "q_payload"
          /\ UNCHANGED << status, err >>
       \/ Fail("ReadSpqr", "spqr_in")
    /\ UNCHANGED << stats, created, cmd, width, graph, fsVars, indexVars, queryVars >>

\* SPQRDecompositionOverlay::read_binary(&graph, &spqr, index_file_reader):
\* it consumes the reader from its position; the codec accepts or rejects.
QueryReadPayload ==
    /\ cmd = "query" /\ pc = "q_payload"
    /\ reads' = Append(reads, "payload")
    /\ payloadStart' = reader.pos
    /\ reader' = [reader EXCEPT !.pos = Len(reader.bytes)]
    /\ \/ /\ pc' = "q_queries"
          /\ UNCHANGED << status, err >>
       \/ Fail("ReadIndex", "index_in")
    /\ UNCHANGED << stats, created, cmd, width, fsVars, indexVars, cliIndexIn, headerByte,
                    graph, queryLines, queries, nextQuery, engine,
                    engineCount, execLog >>

\* The query file is read and parsed as a whole, at the width of the run.
QueryReadQueries ==
    /\ cmd = "query" /\ pc = "q_queries"
    /\ reads' = Append(reads, "queries")
    /\ \E file \in QueryFiles :
          /\ queryLines' = file
          /\ LET r == ReadQueryLines(file, <<>>, width, graph)
             IN \/ /\ r.status = "ok"
                   /\ queries' = r.queries
                   /\ pc' = "q_engine"
                   /\ UNCHANGED << status, err >>
                \/ /\ r.status = "error"
                   /\ Fail(r.kind, r.file)
                   /\ UNCHANGED queries
                \/ /\ r.status = "panic"
                   /\ pc' = "exit"
                   /\ status' = "panic"
                   /\ err' = Error(r.kind, "none")
                   /\ UNCHANGED queries
    /\ UNCHANGED << stats, created, cmd, width, fsVars, indexVars, cliIndexIn, reader,
                    headerByte, payloadStart, graph, nextQuery, engine,
                    engineCount, execLog >>

\* let mut dijkstra = ..::new(..), once, before the query loop.
QueryInitEngine ==
    /\ cmd = "query" /\ pc = "q_engine"
    /\ engine' = EngineFor(cliIndexIn)
    /\ engineCount' = engineCount + 1
    /\ nextQuery' = 1
    /\ pc' = IF queries = <<>> THEN "q_create" ELSE "q_exec"
    /\ UNCHANGED << stats, created, cmd, status, err, width, reads, fsVars, indexVars,
                    cliIndexIn, reader, headerByte, payloadStart, graph,
                    queryLines, queries, execLog >>

\* One iteration of `for query in &mut queries`.
QueryExecute ==
    /\ cmd = "query" /\ pc = "q_exec"
    /\ \E paths \in PathMaps(queries[nextQuery].targets) :
          /\ queries' = [queries EXCEPT ![nextQuery].distances =
                            Distances(queries[nextQuery].targets, paths)]
          /\ execLog' = Append(execLog,
                [engine |-> EngineOfQuery(engine, queries[nextQuery]),
                 index |-> TargetIndexKind(queries[nextQuery].targets),
                 paths |-> paths])
    /\ nextQuery' = nextQuery + 1
    /\ pc' = IF nextQuery = Len(queries) THEN "q_create" ELSE "q_exec"
    /\ UNCHANGED << stats, created, cmd, status, err, width, reads, fsVars, indexVars,
                    cliIndexIn, reader, headerByte, payloadStart, graph,
                    queryLines, engine, engineCount >>

\* write_optionally_compressed_file: File::create(query_out).  The output
\* path of the model has no gz extension.
QueryCreateOutput ==
    /\ cmd = "query" /\ pc = "q_create"
    /\ \/ /\ outFile' = File(<<>>)
          /\ created' = created \cup {"query_out"}
          /\ pc' = "q_write"
          /\ UNCHANGED << status, err >>
       \/ /\ Fail("CreateOutput", "query_out")
          /\ UNCHANGED << outFile, created >>
    /\ UNCHANGED << stats, cmd, width, reads, graph, indexGz, indexFile,
                    writtenWidth, indexVars, queryVars >>

\* The writer closure: one row per query, or an I/O error after some rows.
QueryWriteOutput ==
    /\ cmd = "query" /\ pc = "q_write"
    /\ \/ /\ outFile' = File(OutputRows(graph, queries))
          /\ Succeed
       \/ /\ \E k \in 0..(Len(queries) - 1) :
                 outFile' = File(SubSeq(OutputRows(graph, queries), 1, k))
          /\ Fail("WriteOutput", "query_out")
    /\ UNCHANGED << stats, created, cmd, width, reads, graph, indexGz, indexFile,
                    writtenWidth, indexVars, queryVars >>

-----------------------------------------------------------------------------
(* The statistics command (src/statistics.rs).                              *)

statisticsFrame ==
    << cmd, width, graph, fsVars, indexVars, queryVars >>

\* statistics::run: the match on cli.word_size; json and toml say whether
\* --statistics-json-out and --statistics-toml-out are given.
StatisticsRun(ws, json, toml) ==
    /\ CanStart
    /\ cmd' = "statistics"
    /\ cliWordSize' = ws
    /\ reads' = <<>>
    /\ graph' = <<>>
    /\ overlay' = <<>>
    /\ written' = <<>>
    /\ created' = {}
    /\ stats' = [NoStatistics EXCEPT !.jsonOut = json, !.tomlOut = toml]
    /\ IF IsSupportedWordSize(ws)
           THEN /\ width' = ws
                /\ pc' = "st_graph"
                /\ status' = "running"
                /\ err' = NoError
           ELSE /\ width' = 0
                /\ Fail("UnsupportedWordSize", "none")
    /\ UNCHANGED << fsVars, queryVars >>

\* read_gfa1 on --graph-gfa-in at the chosen width.
StatisticsReadGraph ==
    /\ cmd = "statistics" /\ pc = "st_graph"
    /\ reads' = Append(reads, "graph")
    /\ \/ /\ graph' = Graph
          /\ pc' = "st_spqr"
          /\ UNCHANGED << status, err >>
       \/ /\ Fail("ReadGraph", "graph_gfa_in")
          /\ UNCHANGED graph
    /\ UNCHANGED << stats, created, cmd, width, fsVars, indexVars, queryVars >>

\* read_plain_spqr on --spqr-in.
StatisticsReadSpqr ==
    /\ cmd = "statistics" /\ pc = "st_spqr"
    /\ reads' = Append(reads, "spqr")
    /\ \/ /\ pc' = "st_collect"
          /\ UNCHANGED << status, err >>
       \/ Fail("ReadSpqr", "spqr_in")
    /\ UNCHANGED << stats, created, statisticsFrame >>

\* Statistics::<IndexType> { .. } is collected and its short form printed;
\* then the outputs asked for are written, JSON first.
StatisticsCollect ==
    /\ cmd = "statistics" /\ pc = "st_collect"
    /\ stats' = [stats EXCEPT !.width = width, !.printed = TRUE]
    /\ \/ /\ stats.jsonOut
          /\ pc' = "st_json"
          /\ UNCHANGED << status, err >>
       \/ /\ ~stats.jsonOut /\ stats.tomlOut
          /\ pc' = "st_toml"
          /\ UNCHANGED << status, err >>
       \/ /\ ~stats.jsonOut /\ ~stats.tomlOut
          /\ Succeed
    /\ UNCHANGED << created, reads, statisticsFrame >>

\* File::create(&json_out), then serde_json::to_writer(&mut file, ..).
StatisticsWriteJson ==
    /\ cmd = "statistics" /\ pc = "st_json"
    /\ \/ /\ Fail("CreateJson", "statistics_json_out")
          /\ UNCHANGED << stats, created >>
       \/ /\ created' = created \cup {"statistics_json_out"}
          /\ \/ /\ stats' = [stats EXCEPT !.jsonFile = "full"]
                /\ \/ /\ stats.tomlOut
                      /\ pc' = "st_toml"
                      /\ UNCHANGED << status, err >>
                   \/ /\ ~stats.tomlOut
                      /\ Succeed
             \/ /\ \E left \in {"empty", "partial"} :
                       stats' = [stats EXCEPT !.jsonFile = left]
                /\ Fail("WriteJson", "statistics_json_out")
    /\ UNCHANGED << reads, statisticsFrame >>

\* File::create(&toml_out), then toml::to_string(..), then file.write_all(..).
StatisticsWriteToml ==
    /\ cmd = "statistics" /\ pc = "st_toml"
    /\ \/ /\ Fail("CreateToml", "statistics_toml_out")
          /\ UNCHANGED << stats, created >>
       \/ /\ created' = created \cup {"statistics_toml_out"}
          /\ \/ /\ stats' = [stats EXCEPT !.tomlFile = "full"]
                /\ Succeed
             \/ /\ stats' = [stats EXCEPT !.tomlFile = "empty"]
                /\ Fail("FormatToml", "none")
             \/ /\ \E left \in {"empty", "partial"} :
                       stats' = [stats EXCEPT !.tomlFile = left]
                /\ Fail("WriteToml", "statistics_toml_out")
    /\ UNCHANGED << reads, statisticsFrame >>

Next ==
    \/ \E ws \in WordSizeFlags : IndexRun(ws)
    \/ IndexReadGraph
    \/ IndexReadSpqr
    \/ IndexBuildOverlay
    \/ IndexCreateFile
    \/ IndexWriteHeader
    \/ IndexWritePayload
    \/ \E indexIn \in BOOLEAN : QueryRun(indexIn)
    \/ QueryOpenIndex
    \/ QueryReadHeader
    \/ QueryReadGraph
    \/ QueryReadSpqr
    \/ QueryReadPayload
    \/ QueryReadQueries
    \/ QueryInitEngine
    \/ QueryExecute
    \/ QueryCreateOutput
    \/ QueryWriteOutput
    \/ \E ws \in WordSizeFlags, json \in BOOLEAN, toml \in BOOLEAN :
          StatisticsRun(ws, json, toml)
    \/ StatisticsReadGraph
    \/ StatisticsReadSpqr
    \/ StatisticsCollect
    \/ StatisticsWriteJson
    \/ StatisticsWriteToml

Spec == Init /\ [][Next]_vars

-----------------------------------------------------------------------------
(* Properties.                                                              *)

Range(f) == {f[i] : i \in DOMAIN f}

InQuery == cmd = "query"

\* The columns of a query line as the parser sees them.
Columns(line) == SplitTab(Trim(line))

\* A column count divisible by 3 with a source triple and a target triple.
WellFormedColumns(line) ==
    Len(Columns(line)) % 3 = 0 /\ Len(Columns(line)) >= 6

\* The first line of the query file the parser did not accept, 0 if none.
FirstRejected ==
    LET bad == {i \in DOMAIN queryLines :
                   ParseQueryLine(queryLines[i], width, graph).status # "ok"}
    IN IF bad = {} THEN 0 ELSE CHOOSE i \in bad : \A j \in bad : i <= j

\* The line names a node the graph does not hold and is valid otherwise.
OnlyUnknownNode(line) ==
    /\ WellFormedColumns(line)
    /\ \A c \in DOMAIN Columns(line) :
          /\ c % 3 = 2 => Columns(line)[c] \in {<<"+">>, <<"-">>}
          /\ c % 3 = 0 => ParseUnsigned(Columns(line)[c], width) >= 0
    /\ \E c \in DOMAIN Columns(line) :
          c % 3 = 1 /\ \A i \in DOMAIN Graph : Graph[i].name # Columns(line)[c]

\* C1: in a query run with an index, the header byte is read before the
\* graph, the decomposition, the payload and the queries; when the stream is
\* empty (or unreadable) or the byte is not 8, 16, 32 or 64, the run ends with
\* an error, nothing else was read, no query exists and no output file was
\* created.
C1_HeaderReadFirst ==
    (InQuery /\ cliIndexIn) =>
        /\ reads # <<>> => reads[1] = "header"
        /\ ("header" \in Range(reads) /\ headerByte \notin {8, 16, 32, 64}) =>
              /\ pc = "exit" /\ status = "error"
              /\ reads = <<"header">>
              /\ graph = <<>> /\ payloadStart = -1
              /\ queryLines = <<>> /\ queries = <<>> /\ execLog = <<>>
              /\ ~outFile.exists

C1_Witness ==
    /\ InQuery /\ cliIndexIn /\ indexGz
    /\ headerByte = 12
    /\ pc = "exit" /\ err.kind = "UnsupportedWordSize"

\* C2: an index file written by the index command at word size w decodes to
\* the byte w followed by the payload, the header being written first; a
\* query run reading that file reads w as its header, runs at width w and
\* hands the payload reader the stream positioned just after the header.
C2_HeaderRoundTrip ==
    /\ (cmd = "index" /\ written # <<>>) => written[1] = cliWordSize
    /\ (cmd = "index" /\ pc = "exit" /\ status = "ok") =>
          /\ writtenWidth = cliWordSize
          /\ Decode(indexGz, indexFile.content).bytes = <<cliWordSize>> \o overlay
    /\ writtenWidth # 0 =>
          /\ writtenWidth \in {8, 16, 32, 64}
          /\ indexFile.exists
          /\ Decode(indexGz, indexFile.content).ok
          /\ Decode(indexGz, indexFile.content).bytes[1] = writtenWidth
    /\ (InQuery /\ cliIndexIn /\ writtenWidth # 0 /\ "header" \in Range(reads)) =>
          /\ headerByte = writtenWidth
          /\ width = writtenWidth
          /\ status # "error" \/ reads # <<"header">>
    /\ payloadStart # -1 => (payloadStart = 1 /\ width = headerByte)

C2_Witness ==
    /\ InQuery /\ cliIndexIn /\ indexGz
    /\ writtenWidth = 64 /\ width = 64
    /\ Len(reader.bytes) = 1 + MaxPayload
    /\ payloadStart = 1

\* C3: every query of a run is answered by the same engine, the overlay
\* engine exactly when an index was supplied (and read), the direct engine
\* otherwise.
C3_ModeSelectedOnce ==
    InQuery =>
        /\ \A i \in DOMAIN execLog :
              /\ execLog[i].engine = (IF cliIndexIn THEN "overlay" ELSE "direct")
              /\ execLog[i].engine = "overlay" <=> "payload" \in Range(reads)
              /\ execLog[i].engine = execLog[1].engine
        /\ execLog # <<>> => engineCount = 1

C3_Witness ==
    /\ InQuery /\ cliIndexIn
    /\ Len(execLog) = 2
    /\ execLog[1].index = "single" /\ execLog[2].index = "single"
    /\ execLog[2].engine = "overlay"

\* The last tab-separated column of a row.
LastColumn(row) == SplitTab(row)[Len(SplitTab(row))]

\* The location is the one the k-th triple (from 0) of the columns names.
TripleMatches(loc, cols, k) ==
    /\ Graph[loc.node].name = cols[3 * k + 1]
    /\ loc.forward = (cols[3 * k + 2] = <<"+">>)
    /\ loc.offset = ParseUnsigned(cols[3 * k + 3], width)

\* The columns of an output row without the distance column of each target
\* (columns 7, 11, 15, ...).
RECURSIVE WithoutDistances(_, _)
WithoutDistances(cols, p) ==
    IF p > Len(cols) THEN <<>>
    ELSE IF p > 3 /\ (p - 3) % 4 = 0 THEN WithoutDistances(cols, p + 1)
    ELSE <<cols[p]>> \o WithoutDistances(cols, p + 1)

\* C6: a target the engine returned no path for gets the unreachable
\* sentinel, every other target of the query gets its length, the run does
\* not crash or fail because of it, every query of the batch is executed
\* and a successful run writes one row per query, ending with the text of
\* its last distance ("None" for the sentinel).
C6_UnreachableIsValue ==
    InQuery =>
        /\ \A i \in DOMAIN execLog : \A j \in DOMAIN queries[i].targets :
              /\ j \in DOMAIN queries[i].distances
              /\ queries[i].targets[j] \notin DOMAIN execLog[i].paths =>
                    queries[i].distances[j] = None
              /\ queries[i].targets[j] \in DOMAIN execLog[i].paths =>
                    queries[i].distances[j] =
                        <<execLog[i].paths[queries[i].targets[j]]>>
        /\ execLog # <<>> =>
              /\ status \in {"running", "ok", "error"}
              /\ status = "error" => err.kind \in {"CreateOutput", "WriteOutput"}
              /\ pc \notin {"q_exec"} => Len(execLog) = Len(queries)
        /\ (pc = "exit" /\ status = "ok") =>
              /\ Len(outFile.content) = Len(queries)
              /\ \A i \in DOMAIN queries :
                    LET t == queries[i].targets[Len(queries[i].targets)]
                    IN LastColumn(outFile.content[i]) =
                          IF t \in DOMAIN execLog[i].paths
                              THEN DecimalString(execLog[i].paths[t])
                          ELSE <<"N", "o", "n", "e">>

C6_Witness ==
    /\ InQuery /\ pc = "exit" /\ status = "ok"
    /\ Len(queries) = 2
    /\ queries[1].distances = <<None, Some(MaxPathLen)>>
    /\ queries[2].distances = <<Some(0)>>
    /\ Len(outFile.content) = 2

\* C7: a query line is accepted only if its column count is divisible by 3
\* and at least 6; a line that is not is a parse error naming the query file.
C7_QueryLineValidation ==
    (InQuery /\ "queries" \in Range(reads)) =>
        /\ \A i \in DOMAIN queries : WellFormedColumns(queryLines[i])
        /\ (FirstRejected # 0 /\ ~WellFormedColumns(queryLines[FirstRejected])) =>
              /\ pc = "exit" /\ status = "error"
              /\ err.file = "query_in"
              /\ err.kind \in {"ColumnCount", "SourceTarget", "Orientation", "Offset"}

\* C8: once a query is executed its distances are as many as its targets and
\* distances[j] is what the engine returned for targets[j]; the source is the
\* first triple of the input line and the targets are the other triples in
\* input order.
C8_DistancesAlign ==
    InQuery =>
        /\ \A i \in DOMAIN execLog :
              /\ Len(queries[i].distances) = Len(queries[i].targets)
              /\ \A j \in DOMAIN queries[i].targets :
                    queries[i].distances[j] =
                        IF queries[i].targets[j] \in DOMAIN execLog[i].paths
                            THEN <<execLog[i].paths[queries[i].targets[j]]>>
                        ELSE <<>>
        /\ \A i \in DOMAIN queries :
              /\ Len(queries[i].targets) = Len(Columns(queryLines[i])) \div 3 - 1
              /\ TripleMatches(queries[i].source, Columns(queryLines[i]), 0)
              /\ \A j \in DOMAIN queries[i].targets :
                    TripleMatches(queries[i].targets[j], Columns(queryLines[i]), j)

C8_Witness ==
    /\ InQuery /\ pc = "q_create"
    /\ \E i \in DOMAIN execLog :
          /\ Len(queries[i].targets) = 2
          /\ queries[i].targets[1] # queries[i].targets[2]
          /\ queries[i].distances = <<Some(MaxPathLen), Some(0)>>

\* C9: a successful query run writes one row per input line, in order, and a
\* row without its distance columns is the input line.
C9_OutputMirrorsInput ==
    (InQuery /\ pc = "exit" /\ status = "ok") =>
        /\ Len(outFile.content) = Len(queryLines)
        /\ \A i \in DOMAIN queryLines :
              JoinTab(WithoutDistances(SplitTab(outFile.content[i]), 1))
                  = queryLines[i]

\* C10: a query line that names a node the graph does not hold (and is valid
\* otherwise) makes the run return an error for the query file; the process
\* does not panic.
C10_UnknownNodeIsError ==
    (InQuery /\ "queries" \in Range(reads) /\ FirstRejected # 0
        /\ OnlyUnknownNode(queryLines[FirstRejected])) =>
            /\ pc = "exit" /\ status = "error"
            /\ err.file = "query_in"

\* 0 <= offset < length(node) for a location of the graph.
OffsetWithinNode(loc) ==
    loc.offset >= 0 /\ loc.offset < Graph[loc.node].length

\* The line has an offset column the width of the run does not accept.
HasBadOffset(line) ==
    \E c \in DOMAIN Columns(line) :
        c % 3 = 0 /\ ParseUnsigned(Columns(line)[c], width) < 0

\* C11: in a query run every line is parsed before the first query is
\* executed and the output file is created only after all queries are
\* executed; a query or index run that ends in an error (or a panic) has
\* created no output file, so it leaves no partial query output and no
\* partially written index file.
C11_NoPartialOutput ==
    /\ InQuery =>
          /\ execLog # <<>> => Len(queries) = Len(queryLines)
          /\ "query_out" \in created =>
                "queries" \in Range(reads) /\ Len(execLog) = Len(queries)
    /\ (cmd \in {"index", "query"} /\ pc = "exit" /\ status # "ok") =>
          created = {}

\* C12: the source and the targets of every query handed to an engine
\* satisfy 0 <= offset < length(node).
C12_OffsetWithinNode ==
    InQuery =>
        \A i \in DOMAIN execLog :
            /\ OffsetWithinNode(queries[i].source)
            /\ \A j \in DOMAIN queries[i].targets :
                  OffsetWithinNode(queries[i].targets[j])

\* C13: an index or statistics run with a word size other than 8, 16, 32, 64
\* returns an error having read no input and created no output; with one of
\* these the run is instantiated at that width, which is the header byte the
\* index command writes and the width of the statistics collected.
C13_WordSizeChecked ==
    cmd \in {"index", "statistics"} =>
        /\ cliWordSize \notin {8, 16, 32, 64} =>
              /\ pc = "exit" /\ status = "error"
              /\ err.kind = "UnsupportedWordSize"
              /\ reads = <<>> /\ graph = <<>> /\ created = {}
              /\ width = 0 /\ written = <<>> /\ ~stats.printed
        /\ cliWordSize \in {8, 16, 32, 64} =>
              /\ width = cliWordSize
              /\ written # <<>> => written[1] = cliWordSize
              /\ (cmd = "statistics" /\ stats.printed) => stats.width = cliWordSize

C13_Witness ==
    /\ cmd = "statistics" /\ cliWordSize = 12
    /\ stats.jsonOut /\ stats.tomlOut
    /\ pc = "exit" /\ status = "error"

\* C14: the offsets of a query run are parsed at its width (the header byte
\* with an index, 64 without): the offsets accepted are the values written
\* in the line, and a line with an offset column that is not a decimal
\* number fitting the width makes the run return a parse error.
C14_OffsetParsedAtWidth ==
    (InQuery /\ "queries" \in Range(reads)) =>
        /\ width = (IF cliIndexIn THEN headerByte ELSE 64)
        /\ \A i \in DOMAIN queries :
              /\ ~HasBadOffset(queryLines[i])
              /\ queries[i].source.offset =
                    ParseUnsigned(Columns(queryLines[i])[3], 64)
              /\ \A j \in DOMAIN queries[i].targets :
                    queries[i].targets[j].offset =
                        ParseUnsigned(Columns(queryLines[i])[3 * j + 3], 64)
        /\ (FirstRejected # 0 /\ HasBadOffset(queryLines[FirstRejected])) =>
              /\ pc = "exit" /\ status = "error"
              /\ err.file = "query_in"

====
